---- MODULE Spec2Model ----
(***************************************************************************)
(* SSGPLVM (GPy/models/ss_gplvm.py): the recomputation cycle of            *)
(* parameters_changed and the MPI parameter-synchronisation protocol of    *)
(* __init__, _set_params_transformed and optimize.                         *)
(*                                                                         *)
(* Every MPI rank runs the same script (SPMD): construct the model, call   *)
(* set_parameters script.pre times, call optimize once, call               *)
(* set_parameters script.post times.  A Bcast is a collective: the i-th    *)
(* Bcast call of a rank matches the i-th Bcast call of rank 0, whose       *)
(* buffer every other rank receives.  `sent` is the ordered stream of the  *)
(* buffers rank 0 has broadcast, and pos[r] the number of Bcast calls      *)
(* rank r has completed.  Only the Bcast calls of ss_gplvm.py are in the   *)
(* stream; the collectives the external inference engine makes inside a    *)
(* recomputation cycle are made by all ranks alike and are left out.       *)
(***************************************************************************)
EXTENDS Integers, Sequences, FiniteSets, TLC

\* ---------------------------------------------------------------- bounds
NumWorkers == 3
MaxUpdates == 2

MaxN == 2
MaxD == 2

\* ------------------------------------------------------ program constants
CONTINUE == 1
STOP == -1
\* Probabilities are counted in units of 1e-9: 1.0, 0.5 and 1e-9.
ONE == 1000000000
HALF == 500000000
EPS == 1

Ranks == 0 .. (NumWorkers - 1)
Root == 0
\* The parameter vectors a caller or the optimizer may set.
ParamVecs == {<<0, 1>>, <<1, 2>>}
\* The values an int32 flag buffer may hold.
FlagVals == {STOP, 0, CONTINUE, 2}
\* Evidence and gradient-slot contents before the first recomputation cycle
\* of this class: no value a cycle computes.
Uncomputed == [lml |-> 999, grad |-> [mean |-> 999, variance |-> 999, binary_prob |-> 999]]
InferenceMethods == {"VarDTC_minibatch", "VarDTC_GPU", "VarDTC"}
Scripts == {[pre |-> 0, post |-> 0], [pre |-> 1, post |-> 0], [pre |-> 0, post |-> 1]}

VARIABLES
    mpi,        \* TRUE iff mpi_comm != None
    inference,  \* the class of self.inference_method
    script,     \* the top-level calls every rank makes
    pc,         \* pc[r]: where rank r's script is
    model,      \* model[r]: the SSGPLVM object of rank r
    sent,       \* the buffers rank 0 has broadcast, in order
    pos,        \* pos[r]: number of Bcast calls rank r has completed
    topCalls,   \* topCalls[r]: top-level set_parameters calls rank r has made
    applied,    \* applied[r]: the vectors rank r applied inside optimize
    originated, \* originated[r]: signal buffers rank r supplied (lines 148, 158)
    misread,    \* ranks that received a buffer of the other kind
    obj         \* one SSGPLVM object driven call by call by a single caller

vars == <<mpi, inference, script, pc, model, sent, pos, topCalls, applied,
          originated, misread, obj>>

Procs == IF mpi THEN Ranks ELSE {Root}
Followers == Procs \ {Root}

\* ------------------------------------------------- external collaborators
Sum(p) == p[1] + p[2]
\* SparseGP.parameters_changed: the base evidence for parameters p.
SparseGPEvidence(p) == 20 - 3 * p[1] - p[2]
\* SpikeAndSlabPrior.KL_divergence: non-negative.
KLDivergence(p) == Sum(p)
\* kern.gradients_qX_expectations: (mean, variance, binary_prob) gradients.
KernGradients(p) == [mean |-> p[1] + 1, variance |-> p[2] + 2, binary_prob |-> Sum(p) + 3]
\* The KL gradient update_gradients_KL adds to each slot.
KLGradients(p) == [mean |-> 10 * p[1], variance |-> 10 * p[2], binary_prob |-> 10 * Sum(p) + 10]
\* var_dtc_parallel.update_gradients: the engine computes everything itself.
EngineEvidence(p) == 50 - Sum(p)
EngineGradients(p) == [mean |-> 100 + p[1], variance |-> 100 + p[2], binary_prob |-> 100 + Sum(p)]

\* --------------------------------------------------- recomputation cycle
\* super(SSGPLVM, self).parameters_changed(): line 107
BaseParametersChanged(m) ==
    [m EXCEPT !.lml = SparseGPEvidence(m.param_array),
              !.trace = Append(@, "base_evidence")]

KLCorrectionAdded(m) ==
    [m EXCEPT !.lml = @ + KLDivergence(m.param_array),
              !.trace = Append(@, "kl_subtract")]
\* self._log_marginal_likelihood -= KL_divergence(self.X): line 108
KLCorrection(m) ==
    [m EXCEPT !.lml = @ - KLDivergence(m.param_array),
              !.trace = Append(@, "kl_subtract")]

KernGradientWriteIntoValues(m) ==
    [m EXCEPT !.grad = KernGradients(m.param_array),
              !.variance = KernGradients(m.param_array).variance,
              !.trace = Append(@, "kern_gradient_write")]
\* the three slots assigned from gradients_qX_expectations: line 110
KernGradientWrite(m) ==
    [m EXCEPT !.grad = KernGradients(m.param_array),
              !.trace = Append(@, "kern_gradient_write")]

\* variational_prior.update_gradients_KL(self.X): line 113, adds in place
KLGradientAccumulate(m) ==
    [m EXCEPT !.grad = [s \in DOMAIN @ |-> @[s] + KLGradients(m.param_array)[s]],
              !.trace = Append(@, "kl_gradient_add")]

\* update_gradients(self, mpi_comm=self.mpi_comm): line 104
UpdateGradients(m) ==
    [m EXCEPT !.lml = EngineEvidence(m.param_array),
              !.grad = EngineGradients(m.param_array),
              !.trace = Append(@, "update_gradients")]

BypassGPUOnly(inf) == inf = "VarDTC_GPU"
\* isinstance(..., VarDTC_GPU) or isinstance(..., VarDTC_minibatch): line 103
Bypass(inf) == inf \in {"VarDTC_GPU", "VarDTC_minibatch"}

OwnCycleKLFirst(m) ==
    KernGradientWrite(KLGradientAccumulate(KLCorrection(BaseParametersChanged(m))))
\* lines 107-113 in program order
OwnCycle(m) ==
    KLGradientAccumulate(KernGradientWrite(KLCorrection(BaseParametersChanged(m))))

\* parameters_changed: lines 102-113; trace holds the steps of this cycle
ParametersChanged(m) ==
    LET m0 == [m EXCEPT !.trace = <<>>, !.cycles = @ + 1]
    IN  IF Bypass(m0.inference_method) THEN UpdateGradients(m0) ELSE OwnCycle(m0)

ApplyParamsDropped(m, p) == ParametersChanged(m)
\* super(SSGPLVM, self)._set_params_transformed(p): line 150, the parameter
\* vector is stored and the recomputation cycle runs
ApplyParams(m, p) == ParametersChanged([m EXCEPT !.param_array = p])

\* ---------------------------------------------------------- collectives
Msg(k, v, s) == [kind |-> k, val |-> v, inopt |-> s]

SignalGuardNoRank(inopt, rank) == inopt
SignalGuardAnyTime(inopt, rank) == rank = Root
\* self.__IN_OPTIMIZATION__ and self.mpi_comm.rank==0: line 147
SignalGuard(inopt, rank) == inopt /\ rank = Root

SetParamsBcastsPayloadFirst(inopt, rank, p) ==
    <<Msg("payload", p, inopt)>> \o
    (IF SignalGuard(inopt, rank) THEN <<Msg("signal", CONTINUE, inopt)>> ELSE <<>>)
\* The Bcast calls of _set_params_transformed, in order: lines 147-149
SetParamsBcasts(inopt, rank, p) ==
    (IF SignalGuard(inopt, rank) THEN <<Msg("signal", CONTINUE, inopt)>> ELSE <<>>)
    \o <<Msg("payload", p, inopt)>>

CtorBcastsNone(p) == <<>>
\* mpi_comm.Bcast(self.param_array, root=0): line 92
CtorBcasts(p) == <<Msg("payload", p, FALSE)>>

StopBcastsNone(inopt) == <<>>
\* self.mpi_comm.Bcast(np.int32(-1),root=0): line 158
StopBcasts(inopt) == <<Msg("signal", STOP, inopt)>>

NumSignals(cs) == Cardinality({i \in DOMAIN cs : cs[i].kind = "signal"})

\* What a receive buffer of kind k holds after a Bcast matched with message
\* msg.  A buffer of the other kind and size is an erroneous MPI call: the
\* buffer may then hold anything.
RecvVals(k, msg) ==
    IF msg.kind = k THEN {msg.val}
    ELSE IF k = "signal" THEN FlagVals ELSE ParamVecs

\* Rank r makes the Bcast calls cs (root=0), n of them with a signal value
\* of its own as the buffer.  On rank 0 the buffers are broadcast; on any
\* other rank each call receives the next message of the stream.
Bcasts(r, cs, n) ==
    /\ originated' = [originated EXCEPT ![r] = @ + n]
    /\ pos' = [pos EXCEPT ![r] = @ + Len(cs)]
    /\ IF r = Root
       THEN /\ sent' = sent \o cs
            /\ UNCHANGED misread
       ELSE /\ pos[r] + Len(cs) <= Len(sent)
            /\ misread' = IF \E i \in DOMAIN cs : sent[pos[r] + i].kind # cs[i].kind
                          THEN misread \cup {r} ELSE misread
            /\ UNCHANGED sent

\* The contents rank r's i-th buffer of cs may hold after the calls.
BufferVals(r, cs, i) ==
    IF r = Root THEN {cs[i].val} ELSE RecvVals(cs[i].kind, sent[pos[r] + i])

PayloadIndex(cs) == CHOOSE i \in DOMAIN cs : cs[i].kind = "payload"

NoBcast == UNCHANGED <<sent, pos, originated, misread>>

\* _set_params_transformed(p) on rank r: lines 145-150.  before: the Bcast
\* calls the caller has made earlier in the same step.
SetParamsTransformed(r, p, before) ==
    IF mpi
    THEN LET own == SetParamsBcasts(model[r].IN_OPTIMIZATION, r, p)
             cs == before \o own
         IN  /\ Bcasts(r, cs, NumSignals(own))
             /\ \E v \in BufferVals(r, cs, Len(before) + PayloadIndex(own)) :
                  /\ model' = [model EXCEPT ![r] = ApplyParams(@, v)]
                  /\ applied' = [applied EXCEPT ![r] =
                                   IF model[r].IN_OPTIMIZATION THEN Append(@, v) ELSE @]
    ELSE /\ NoBcast
         /\ model' = [model EXCEPT ![r] = ApplyParams(@, p)]
         /\ applied' = [applied EXCEPT ![r] =
                          IF model[r].IN_OPTIMIZATION THEN Append(@, p) ELSE @]

\* ------------------------------------------------------------------ Init
NoModel == [param_array |-> <<0, 0>>, lml |-> 0,
            grad |-> [mean |-> 0, variance |-> 0, binary_prob |-> 0],
            trace |-> <<>>, cycles |-> 0, IN_OPTIMIZATION |-> FALSE,
            inference_method |-> "none"]

Init ==
    /\ mpi \in BOOLEAN
    /\ inference \in InferenceMethods
    /\ script \in Scripts
    /\ pc = [r \in Ranks |-> "new"]
    /\ model = [r \in Ranks |-> NoModel]
    /\ sent = <<>>
    /\ pos = [r \in Ranks |-> 0]
    /\ topCalls = [r \in Ranks |-> 0]
    /\ applied = [r \in Ranks |-> <<>>]
    /\ originated = [r \in Ranks |-> 0]
    /\ misread = {}
    /\ obj = [st |-> "new"]

\* --------------------------------------------------------------- actions
\* __init__ up to line 83: the rank builds its own model from its locally
\* initialised values
Construct(r) ==
    /\ r \in Procs
    /\ pc[r] = "new"
    /\ \E p \in ParamVecs :
         model' = [model EXCEPT ![r] =
                     [param_array |-> p, lml |-> Uncomputed.lml,
                      grad |-> Uncomputed.grad,
                      trace |-> <<>>, cycles |-> 0, IN_OPTIMIZATION |-> FALSE,
                      inference_method |-> inference]]
    /\ pc' = [pc EXCEPT ![r] = IF mpi THEN "ctor_bcast" ELSE "pre"]
    /\ NoBcast
    /\ UNCHANGED <<obj, mpi, inference, script, topCalls, applied>>

\* __init__ lines 84-92: Bcast(self.param_array, root=0) writes the received
\* vector into param_array; no recomputation cycle runs
ConstructBcast(r) ==
    /\ r \in Procs
    /\ pc[r] = "ctor_bcast"
    /\ LET cs == CtorBcasts(model[r].param_array)
       IN  IF cs = <<>>
           THEN NoBcast /\ UNCHANGED model
           ELSE /\ Bcasts(r, cs, 0)
                /\ \E v \in BufferVals(r, cs, 1) :
                     model' = [model EXCEPT ![r].param_array = v]
    /\ pc' = [pc EXCEPT ![r] = "pre"]
    /\ UNCHANGED <<obj, mpi, inference, script, topCalls, applied>>

\* A top-level call of set_parameters, before or after optimize
SetParameters(r) ==
    /\ r \in Procs
    /\ \/ pc[r] = "pre" /\ topCalls[r] < script.pre
       \/ pc[r] = "post" /\ topCalls[r] < script.pre + script.post
    /\ \E p \in ParamVecs : SetParamsTransformed(r, p, <<>>)
    /\ topCalls' = [topCalls EXCEPT ![r] = @ + 1]
    /\ UNCHANGED <<obj, mpi, inference, script, pc>>

\* The branch optimize takes: lines 154, 156, 159
Dispatch(r) ==
    IF ~mpi THEN "optimizing" ELSE IF r = Root THEN "optimizing" ELSE "wait_signal"

\* optimize, lines 153-161: set the flag and enter the rank's branch
OptimizeEnter(r) ==
    /\ r \in Procs
    /\ pc[r] = "pre"
    /\ topCalls[r] = script.pre
    /\ model' = [model EXCEPT ![r].IN_OPTIMIZATION = TRUE]
    /\ pc' = [pc EXCEPT ![r] = Dispatch(r)]
    /\ NoBcast
    /\ UNCHANGED <<obj, mpi, inference, script, topCalls, applied>>

\* The optimizer (lines 155, 157) evaluates the objective at p, which sets
\* the parameters through _set_params_transformed
OptimizerStep(r) ==
    /\ r \in Procs
    /\ pc[r] = "optimizing"
    /\ Len(applied[r]) < MaxUpdates
    /\ \E p \in ParamVecs : SetParamsTransformed(r, p, <<>>)
    /\ UNCHANGED <<obj, mpi, inference, script, pc, topCalls>>

\* The optimizer returns: line 158 on rank 0, then line 171
OptimizerReturn(r) ==
    /\ r \in Procs
    /\ pc[r] = "optimizing"
    /\ LET cs == IF mpi /\ r = Root THEN StopBcasts(model[r].IN_OPTIMIZATION) ELSE <<>>
       IN  IF cs = <<>> THEN NoBcast ELSE Bcasts(r, cs, Len(cs))
    /\ model' = [model EXCEPT ![r].IN_OPTIMIZATION = FALSE]
    /\ pc' = [pc EXCEPT ![r] = "post"]
    /\ UNCHANGED <<obj, mpi, inference, script, topCalls, applied>>

FlagBranchLenient(flag) == IF flag = STOP THEN "stop" ELSE "continue"
\* if flag==1 / elif flag==-1 / else: lines 164-170
FlagBranch(flag) ==
    IF flag = CONTINUE THEN "continue" ELSE IF flag = STOP THEN "stop" ELSE "error"

\* One iteration of the follower's wait loop, lines 162-170: receive the
\* flag; on 1 call _set_params_transformed(x) and loop, on -1 leave the loop
\* (line 171 follows), otherwise clear the flag and raise
FollowerLoop(r) ==
    /\ r \in Followers
    /\ pc[r] = "wait_signal"
    /\ pos[r] < Len(sent)
    /\ LET flagbuf == <<Msg("signal", 0, model[r].IN_OPTIMIZATION)>>
       IN  \E flag \in BufferVals(r, flagbuf, 1) :
             CASE FlagBranch(flag) = "continue" ->
                    /\ SetParamsTransformed(r, model[r].param_array, flagbuf)
                    /\ UNCHANGED pc
               [] FlagBranch(flag) = "stop" ->
                    /\ Bcasts(r, flagbuf, 0)
                    /\ pc' = [pc EXCEPT ![r] = "post"]
                    /\ model' = [model EXCEPT ![r].IN_OPTIMIZATION = FALSE]
                    /\ UNCHANGED applied
               [] OTHER ->
                    /\ Bcasts(r, flagbuf, 0)
                    /\ pc' = [pc EXCEPT ![r] = "raised"]
                    /\ model' = [model EXCEPT ![r].IN_OPTIMIZATION = FALSE]
                    /\ UNCHANGED applied
    /\ UNCHANGED <<obj, mpi, inference, script, topCalls>>

Next ==
    \E r \in Ranks :
        \/ Construct(r)
        \/ ConstructBcast(r)
        \/ SetParameters(r)
        \/ OptimizeEnter(r)
        \/ OptimizerStep(r)
        \/ OptimizerReturn(r)
        \/ FollowerLoop(r)

Spec == Init /\ [][Next]_vars

\* The distributed model with the default inference method (line 70) and
\* one set_parameters call after optimize.
DefaultInit ==
    /\ Init
    /\ mpi
    /\ inference = "VarDTC_minibatch"
    /\ script = [pre |-> 0, post |-> 1]

\* The ranks are running processes and the transport is reliable and
\* ordered: while some rank can take a step, a step is taken; a blocked
\* Bcast completes once rank 0 has made the matching call.
FairSpec == DefaultInit /\ [][Next]_vars /\ WF_vars(Next)

\* The scripted transport of the protocol test: while rank 0 optimizes, the
\* script puts one out-of-range signal value into the stream.
OutOfRange == FlagVals \ {CONTINUE, STOP}
IsOutOfRange(msg) == msg.kind = "signal" /\ msg.val \in OutOfRange

ScriptedSignal ==
    /\ mpi
    /\ pc[Root] = "optimizing"
    /\ \A i \in DOMAIN sent : ~IsOutOfRange(sent[i])
    /\ \E v \in OutOfRange : sent' = Append(sent, Msg("signal", v, TRUE))
    /\ UNCHANGED <<obj, mpi, inference, script, pc, model, pos, topCalls, applied,
                   originated, misread>>

NextScripted == Next \/ ScriptedSignal

SpecScripted == DefaultInit /\ [][NextScripted]_vars

\* ------------------------------------------------ the optimizer raising
RaiseBcastsStop(inopt) == StopBcasts(inopt)
\* The Bcast calls of optimize when the optimizer call of line 155 or 157
\* raises: the exception leaves optimize before line 158
RaiseBcasts(inopt) == <<>>

\* The optimizer call of line 155 or 157 raises: there is no try/finally,
\* so neither line 158 nor line 171 runs and the exception reaches the caller
OptimizerRaise(r) ==
    /\ r \in Procs
    /\ pc[r] = "optimizing"
    /\ LET cs == IF mpi /\ r = Root THEN RaiseBcasts(model[r].IN_OPTIMIZATION) ELSE <<>>
       IN  IF cs = <<>> THEN NoBcast ELSE Bcasts(r, cs, Len(cs))
    /\ pc' = [pc EXCEPT ![r] = "opt_raised"]
    /\ UNCHANGED <<obj, mpi, inference, script, model, topCalls, applied>>

\* A caller that caught the optimizer's exception goes on with its
\* set_parameters calls: lines 145-150
SetParametersAfterRaise(r) ==
    /\ r \in Procs
    /\ pc[r] = "opt_raised"
    /\ topCalls[r] < script.pre + script.post
    /\ \E p \in ParamVecs : SetParamsTransformed(r, p, <<>>)
    /\ topCalls' = [topCalls EXCEPT ![r] = @ + 1]
    /\ UNCHANGED <<obj, mpi, inference, script, pc>>

NextRaise ==
    \/ Next
    \/ \E r \in Ranks :
          \/ OptimizerRaise(r)
          \/ SetParametersAfterRaise(r)

SpecRaise == Init /\ [][NextRaise]_vars

\* Every rank whose next step is enabled eventually takes a step.
FairSpecRaise == DefaultInit /\ [][NextRaise]_vars /\ WF_vars(NextRaise)

\* ------------------------------------------------- one object, one caller
\* The constructor arguments a caller may pass.
Seeds == {0, 1}
InferenceArgs == InferenceMethods \cup {"None"}
KernelArgs == {"None", "ARD", "noARD"}

\* 0.1 * np.random.randn(N, input_dim) for a seeded generator: line 48
NoiseVals == <<-700000000, -100000000, 200000000, 600000000>>
Noise(seed, i, j) == NoiseVals[((seed + 2 * i + j) % 4) + 1]

\* gamma[:] = 0.5 + 0.1 * randn: line 48
PerturbedGamma(N, D, seed) ==
    [i \in 1 .. N |-> [j \in 1 .. D |-> HALF + Noise(seed, i, j)]]

\* gamma[gamma>1.-1e-9] = 1.-1e-9; gamma[gamma<1e-9] = 1e-9: lines 49-50
ClampEntry(v) == IF v > ONE - EPS THEN ONE - EPS ELSE IF v < EPS THEN EPS ELSE v
ClampGamma(g) == [i \in DOMAIN g |-> [j \in DOMAIN g[i] |-> ClampEntry(g[i][j])]]

\* gamma[:] = 0.5: line 51
ConstantGamma(g) == [i \in DOMAIN g |-> [j \in DOMAIN g[i] |-> HALF]]

InitialGammaRandom(N, D, seed) == ClampGamma(PerturbedGamma(N, D, seed))
\* lines 47-51 in program order
InitialGamma(N, D, seed) == ConstantGamma(ClampGamma(PerturbedGamma(N, D, seed)))

\* gamma[:] = gamma[:,0], line 54: numpy assigns a value of shape (N,) to a
\* target of shape (N, D) by broadcasting it along the last axis, which it
\* can do only when N = D or N = 1; otherwise it raises ValueError.
GroupAssignable(N, D) == N = D \/ N = 1
GroupAssign(g, N, D) ==
    [i \in 1 .. N |-> [j \in 1 .. D |-> IF N = 1 THEN g[1][1] ELSE g[j][1]]]

ResolveInferenceVarDTC(arg) == IF arg = "None" THEN "VarDTC" ELSE arg
\* if inference_method is None: VarDTC_minibatch(mpi_comm=mpi_comm): lines 69-70
ResolveInference(arg) == IF arg = "None" THEN "VarDTC_minibatch" ELSE arg

\* if kernel is None: kern.RBF(input_dim, lengthscale=fracs, ARD=True): lines 66-67
ResolveKernelARD(karg) == karg \in {"None", "ARD"}

\* The attributes of the instance that hold per-worker shard state: lines 86-90
ShardAttrs == {"Y_local", "X_local", "Y_range", "Y_list"}
\* The instance dictionary after __init__
InstanceAttrs(comm) ==
    {"mpi_comm", "IN_OPTIMIZATION", "group_spike", "init", "variational_prior",
     "X", "Y", "Z", "kern", "likelihood", "inference_method"}
    \cup (IF comm THEN ShardAttrs ELSE {})

\* The parameter vector the model holds when built, and what a call returned
\* or a snapshot held before any was made.
InitialParams == <<0, 1>>
NoSnapshot == [taken |-> FALSE, mpi_comm |-> "None", keys |-> {}]
NoReturn == [call |-> "none", raised |-> FALSE, val |-> <<>>]

\* __init__, lines 29-92, for one caller: N observations, input_dim D
ObjConstruct ==
    /\ obj.st = "new"
    /\ \E N \in 1 .. MaxN, D \in 1 .. MaxD, seed \in Seeds, group \in BOOLEAN,
          comm \in BOOLEAN, iarg \in InferenceArgs, karg \in KernelArgs :
         LET gamma == InitialGamma(N, D, seed)
             p == InitialParams
             args == [N |-> N, D |-> D, seed |-> seed, group_spike |-> group,
                      comm |-> comm, inference |-> iarg, kernel |-> karg]
         IN  IF group /\ ~GroupAssignable(N, D)
             THEN obj' = [st |-> "ctor_raised", args |-> args]
             ELSE obj' =
                   [st |-> "built", args |-> args,
                    mpi_comm |-> IF comm THEN "comm" ELSE "None",
                    attrs |-> InstanceAttrs(comm),
                    ARD |-> ResolveKernelARD(karg),
                    kern_group |-> group, prior_group |-> group,
                    snap |-> NoSnapshot, ret |-> NoReturn,
                    restored |-> FALSE, bcasts |-> 0,
                    m |-> [param_array |-> p, lml |-> Uncomputed.lml,
                           grad |-> Uncomputed.grad, trace |-> <<>>, cycles |-> 0,
                           IN_OPTIMIZATION |-> FALSE,
                           inference_method |-> ResolveInference(iarg),
                           binary_prob |-> IF group THEN GroupAssign(gamma, N, D)
                                           ELSE gamma,
                           pi |-> [j \in 1 .. D |-> HALF],
                           Z |-> p[1], mean |-> p[2], variance |-> Sum(p)]]
    /\ UNCHANGED <<mpi, inference, script, pc, model, sent, pos, topCalls, applied,
                   originated, misread>>

ProtocolVars == <<mpi, inference, script, pc, model, sent, pos, topCalls, applied,
                  originated, misread>>

\* The values that are views of the parameter vector follow it: line 150
StoreParams(m, p) == [m EXCEPT !.Z = p[1], !.mean = p[2], !.variance = Sum(p)]

OwnCycleKernelRaisesRolledBack(m) ==
    [m EXCEPT !.trace = <<"kern_gradient_raise">>, !.cycles = @ + 1]
\* Lines 107-110 when kern.gradients_qX_expectations raises: the tuple
\* assignment of line 110 and line 113 are never reached, nothing is undone.
OwnCycleKernelRaises(m) ==
    LET m0 == [m EXCEPT !.trace = <<>>, !.cycles = @ + 1]
    IN  [KLCorrection(BaseParametersChanged(m0))
           EXCEPT !.trace = Append(@, "kern_gradient_raise")]

\* The number of Bcast calls this object makes in _set_params_transformed
ObjSetParamsBcasts(o, p) ==
    IF o.mpi_comm # "None"
    THEN Len(SetParamsBcasts(o.m.IN_OPTIMIZATION, Root, p)) ELSE 0

\* set_parameters(p) by the caller: lines 145-150 and the cycle of 102-113
ObjSetParams ==
    /\ obj.st = "built"
    /\ obj.m.cycles < MaxUpdates
    /\ \E p \in ParamVecs, raises \in BOOLEAN :
         /\ raises => ~Bypass(obj.m.inference_method)
         /\ obj' = [obj EXCEPT
                !.m = IF raises
                      THEN OwnCycleKernelRaises(StoreParams([@ EXCEPT !.param_array = p], p))
                      ELSE ApplyParams(StoreParams(@, p), p),
                !.bcasts = @ + ObjSetParamsBcasts(obj, p),
                !.ret = [call |-> "set_parameters", raised |-> raises, val |-> <<>>]]
    /\ UNCHANGED ProtocolVars

\* parameters_changed() called on the object as it stands: lines 102-113
ObjParametersChanged ==
    /\ obj.st = "built"
    /\ obj.m.cycles < MaxUpdates
    /\ obj' = [obj EXCEPT !.m = ParametersChanged(@),
                          !.ret = [call |-> "parameters_changed", raised |-> FALSE,
                                   val |-> <<>>]]
    /\ UNCHANGED ProtocolVars

\* The gradient triples a caller hands to set_X_gradients
GradTriples == {<<1, 2, 3>>, <<7, 8, 9>>}
SetXGradientsMeanOnly(grad, g) == [grad EXCEPT !.mean = g[1]]
\* X.mean.gradient, X.variance.gradient, X.binary_prob.gradient = X_grad: line 96
SetXGradients(grad, g) == [mean |-> g[1], variance |-> g[2], binary_prob |-> g[3]]

\* set_X_gradients(self.X, X_grad): lines 94-96
ObjSetXGradients ==
    /\ obj.st = "built"
    /\ \E g \in GradTriples :
         obj' = [obj EXCEPT !.m.grad = SetXGradients(@, g),
                            !.ret = [call |-> "set_X_gradients", raised |-> FALSE,
                                     val |-> g]]
    /\ UNCHANGED ProtocolVars

\* kern.input_sensitivity(): the kernel's relevance of each latent dimension
KernInputSensitivity(o) == [j \in 1 .. o.args.D |-> 10 * j + o.m.Z]
InputSensitivityInverted(o) == IF o.ARD THEN o.m.pi ELSE KernInputSensitivity(o)
\* input_sensitivity: lines 115-119
InputSensitivity(o) == IF o.ARD THEN KernInputSensitivity(o) ELSE o.m.pi

ObjInputSensitivity ==
    /\ obj.st = "built"
    /\ obj' = [obj EXCEPT !.ret = [call |-> "input_sensitivity", raised |-> FALSE,
                                   val |-> InputSensitivity(obj)]]
    /\ UNCHANGED ProtocolVars

GetStateAllShards(o) ==
    [taken |-> TRUE, mpi_comm |-> "None",
     keys |-> IF o.mpi_comm # "None" THEN o.attrs \ ShardAttrs ELSE o.attrs]
\* __getstate__: lines 128-135; dc holds the instance attributes by name
GetState(o) ==
    [taken |-> TRUE, mpi_comm |-> "None",
     keys |-> IF o.mpi_comm # "None"
              THEN o.attrs \ {"Y_local", "X_local", "Y_range"} ELSE o.attrs]

ObjSnapshot ==
    /\ obj.st = "built"
    /\ obj' = [obj EXCEPT !.snap = GetState(obj)]
    /\ UNCHANGED ProtocolVars

\* __setstate__: lines 137-138; the instance takes the persisted attributes
SetState(o, state) ==
    [o EXCEPT !.mpi_comm = state.mpi_comm, !.attrs = state.keys,
              !.restored = TRUE, !.bcasts = 0, !.snap = NoSnapshot]

ObjRestore ==
    /\ obj.st = "built"
    /\ obj.snap.taken
    /\ obj' = SetState(obj, obj.snap)
    /\ UNCHANGED ProtocolVars

\* The number of Bcast calls this object makes in one optimize call in which
\* the optimizer tries the vector p: lines 147-149 and 158
ObjOptimizeBcasts(o, p) ==
    IF o.mpi_comm # "None"
    THEN Len(SetParamsBcasts(TRUE, Root, p)) + Len(StopBcasts(TRUE)) ELSE 0

\* optimize() on the caller's object, the optimizer trying one vector:
\* lines 152-158 and 171
ObjOptimize ==
    /\ obj.st = "built"
    /\ obj.m.cycles < MaxUpdates
    /\ \E p \in ParamVecs :
         obj' = [obj EXCEPT
                !.m = [ApplyParams(StoreParams([@ EXCEPT !.IN_OPTIMIZATION = TRUE], p), p)
                         EXCEPT !.IN_OPTIMIZATION = FALSE],
                !.bcasts = @ + ObjOptimizeBcasts(obj, p),
                !.ret = [call |-> "optimize", raised |-> FALSE, val |-> <<>>]]
    /\ UNCHANGED ProtocolVars

ObjInit == Init /\ ~mpi /\ inference = "VarDTC" /\ script = [pre |-> 0, post |-> 0]

ObjNext ==
    \/ ObjConstruct
    \/ ObjSetParams
    \/ ObjParametersChanged
    \/ ObjSetXGradients
    \/ ObjInputSensitivity
    \/ ObjSnapshot
    \/ ObjRestore
    \/ ObjOptimize

SpecObject == ObjInit /\ [][ObjNext]_vars

\* ------------------------------------------------------------ properties
IsContinue(msg) == msg.kind = "signal" /\ msg.val = CONTINUE
IsStop(msg) == msg.kind = "signal" /\ msg.val = STOP
StopIndexes == {i \in DOMAIN sent : IsStop(sent[i])}
InWaitLoop(r) == pc[r] = "wait_signal"
IsPrefix(s, t) == Len(s) <= Len(t) /\ \A j \in DOMAIN s : s[j] = t[j]

\* C1: inside an optimization session rank 0 broadcasts the continue signal
\* immediately before every parameter vector, so the stream is made of
\* (signal 1, payload) pairs; every follower in its wait loop has received
\* the signal, then the payload, and applied that payload; no rank ever
\* receives a payload into a flag buffer or a signal into a vector buffer.
C1_WriteThroughOrdering ==
    /\ \A i \in DOMAIN sent :
         /\ IsContinue(sent[i]) =>
              i < Len(sent) /\ sent[i + 1].kind = "payload" /\ sent[i + 1].inopt
         /\ (sent[i].kind = "payload" /\ sent[i].inopt) =>
              i > 1 /\ IsContinue(sent[i - 1])
    /\ misread = {}
    /\ \A r \in Followers :
         (InWaitLoop(r) /\ applied[r] # <<>>) =>
             /\ IsContinue(sent[pos[r] - 1])
             /\ sent[pos[r]].kind = "payload"
             /\ sent[pos[r]].val = model[r].param_array

C1_Witness ==
    /\ mpi
    /\ \E r \in Followers : InWaitLoop(r) /\ Len(applied[r]) = 2
    /\ Len(sent) >= 5

\* C2: every follower applies the vectors rank 0 set during optimize, in
\* the same order; after its j-th round its parameter vector is rank 0's
\* j-th vector; when it leaves optimize it has applied exactly as many
\* updates as rank 0.
C2_FollowerMirroring ==
    \A r \in Followers :
        /\ IsPrefix(applied[r], applied[Root])
        /\ (InWaitLoop(r) /\ applied[r] # <<>>) =>
               model[r].param_array = applied[Root][Len(applied[r])]
        /\ pc[r] = "post" => applied[r] = applied[Root]
        /\ pc[r] # "raised"

C2_Witness ==
    /\ mpi
    /\ Cardinality(Procs) >= 3
    /\ \A r \in Followers : pc[r] = "post"
    /\ Len(applied[Root]) = 2
    /\ applied[Root][1] # applied[Root][2]
    /\ \A r \in Followers : Len(applied[r]) = 2

\* C3: once rank 0's optimizer has returned, the stream holds exactly one
\* stop sentinel, placed after every (signal, payload) pair of the session;
\* a follower that has left the loop holds exactly rank 0's updates and its
\* flag is cleared; and every follower eventually leaves the wait loop.
C3_StopPlacement ==
    /\ Cardinality(StopIndexes) <= 1
    /\ (mpi /\ pc[Root] = "post") =>
          /\ Cardinality(StopIndexes) = 1
          /\ \A i \in StopIndexes : \A j \in DOMAIN sent :
                (IsContinue(sent[j]) \/ sent[j].inopt) => j <= i
    /\ \A r \in Followers :
          pc[r] = "post" =>
             /\ IsStop(sent[pos[r] - topCalls[r] + script.pre])
             /\ applied[r] = applied[Root]
             /\ ~model[r].IN_OPTIMIZATION

C3_Termination ==
    /\ []C3_StopPlacement
    /\ (mpi /\ pc[Root] = "post") ~> (\A r \in Followers : pc[r] = "post")

C3_Witness ==
    /\ mpi
    /\ \A r \in Procs : pc[r] = "post"
    /\ Len(applied[Root]) = 2
    /\ Cardinality(StopIndexes) = 1

\* C4 as stated: a set_parameters call on rank 0 outside an optimization
\* session performs no collective operation at all.
RootSetsOutsideSession ==
    /\ mpi
    /\ topCalls'[Root] = topCalls[Root] + 1
    /\ ~model[Root].IN_OPTIMIZATION

C4_NoCollectiveOutsideSession ==
    [][RootSetsOutsideSession => sent' = sent]_vars

\* C4 amended: a set_parameters call on rank 0 outside an optimization
\* session broadcasts no signal; it performs exactly one collective, the
\* broadcast of the parameter vector it sets.
C4_PayloadOnlyOutsideSession ==
    [][RootSetsOutsideSession =>
          /\ sent' = Append(sent, Msg("payload", model'[Root].param_array, FALSE))
          /\ originated'[Root] = originated[Root]]_vars

C4_Witness ==
    /\ mpi
    /\ topCalls[Root] = 1
    /\ ~model[Root].IN_OPTIMIZATION
    /\ sent[Len(sent)].kind = "payload"
    /\ ~sent[Len(sent)].inopt

\* C5: a follower whose wait loop receives a signal that is neither 1 nor
\* -1 raises at once: it consumes that one signal only, receives no payload,
\* applies no update, keeps the parameters it had applied, and takes no
\* further step.
NextSignalOutOfRange(r) ==
    /\ InWaitLoop(r)
    /\ pos[r] < Len(sent)
    /\ IsOutOfRange(sent[pos[r] + 1])

C5_ProtocolError ==
    [][\A r \in Followers :
          /\ (NextSignalOutOfRange(r) /\ pos'[r] # pos[r]) =>
                /\ pc'[r] = "raised"
                /\ pos'[r] = pos[r] + 1
                /\ applied'[r] = applied[r]
                /\ model'[r].param_array = model[r].param_array
                /\ model'[r].cycles = model[r].cycles
          /\ pc[r] = "raised" =>
                /\ pc'[r] = "raised"
                /\ pos'[r] = pos[r]
                /\ applied'[r] = applied[r]
                /\ model'[r] = model[r]]_vars

C5_Witness ==
    \E r \in Followers :
        /\ pc[r] = "raised"
        /\ Len(applied[r]) >= 1
        /\ model[r].param_array = applied[r][Len(applied[r])]
        /\ IsOutOfRange(sent[pos[r]])
        /\ pos[r] < Len(sent)

\* C6: no rank other than 0 ever runs the optimizer or supplies a signal
\* value to a broadcast, and every signal of the stream was supplied by
\* rank 0.
C6_SinglePointOfControl ==
    /\ \A r \in Followers : pc[r] # "optimizing" /\ originated[r] = 0
    /\ originated[Root] = Cardinality({i \in DOMAIN sent : sent[i].kind = "signal"})

C6_Witness ==
    \E r \in Followers :
        /\ InWaitLoop(r)
        /\ model[r].IN_OPTIMIZATION
        /\ Len(applied[r]) = 2
        /\ originated[r] = 0

\* C7: after a recomputation cycle on the coordinator's own path the
\* evidence is the base evidence of the current parameters minus their KL
\* divergence, with the KL term subtracted once in the cycle, so it never
\* exceeds the base evidence.
OwnPath(r) == model[r].cycles > 0 /\ model[r].inference_method = "VarDTC"
Count(tr, step) == Cardinality({i \in DOMAIN tr : tr[i] = step})
Index(tr, step) == CHOOSE i \in DOMAIN tr : tr[i] = step

C8_GradientOrdering ==
    \A r \in Procs :
        OwnPath(r) =>
           /\ \A s \in {"mean", "variance", "binary_prob"} :
                 model[r].grad[s] = KernGradients(model[r].param_array)[s]
                                      + KLGradients(model[r].param_array)[s]
           /\ Count(model[r].trace, "kern_gradient_write") = 1
           /\ Count(model[r].trace, "kl_gradient_add") = 1
           /\ Index(model[r].trace, "kern_gradient_write")
                 < Index(model[r].trace, "kl_gradient_add")

C8_Witness ==
    \E r \in Procs :
        /\ OwnPath(r)
        /\ model[r].cycles >= 2
        /\ model[r].grad # Uncomputed.grad

\* C9: with the minibatch or the GPU inference method a cycle consists of
\* the call of the external engine alone: none of the coordinator's four
\* own steps runs.
C9_DispatchBypass ==
    \A r \in Procs :
        (model[r].cycles > 0
           /\ model[r].inference_method \in {"VarDTC_minibatch", "VarDTC_GPU"}) =>
               model[r].trace = <<"update_gradients">>

C9_Witness ==
    \E r \in Procs :
        /\ model[r].cycles >= 2
        /\ model[r].inference_method = "VarDTC_minibatch"
        /\ model[r].trace = <<"update_gradients">>

\* C10: construction in distributed mode makes one Bcast call, of the
\* parameter vector and rooted at rank 0, and supplies no signal; a rank
\* that has finished construction holds rank 0's vector, and when all ranks
\* have, all vectors are equal.
Fresh(r) == pc[r] = "pre" /\ topCalls[r] = 0

C10_ConstructionBroadcast ==
    mpi =>
       /\ sent # <<>> => sent[1].kind = "payload" /\ ~sent[1].inopt
       /\ \A r \in Procs :
             Fresh(r) =>
                /\ pos[r] = 1
                /\ originated[r] = 0
                /\ model[r].param_array = sent[1].val
                /\ model[r].cycles = 0
       /\ (\A r \in Procs : Fresh(r)) =>
             /\ Len(sent) = 1
             /\ \A r \in Procs : model[r].param_array = model[Root].param_array

C10_Witness ==
    /\ mpi
    /\ \A r \in Procs : Fresh(r)
    /\ model[Root].param_array = <<1, 2>>

Built == obj.st = "built"
InUnitRange(g) ==
    \A i \in DOMAIN g : \A j \in DOMAIN g[i] : EPS <= g[i][j] /\ g[i][j] <= ONE - EPS
RowsConstant(g) ==
    \A i \in DOMAIN g : \A j, k \in DOMAIN g[i] : g[i][j] = g[i][k]

\* C11: the persisted state of a model has the session handle nulled and,
\* for a distributed model, holds none of the per-worker shard attributes
\* (local observation slice, local posterior slice, partition boundaries,
\* partition table); a restored model makes no broadcast.
C11_SnapshotExcludesShardState ==
    /\ (Built /\ obj.snap.taken) =>
          /\ obj.snap.mpi_comm = "None"
          /\ obj.args.comm => obj.snap.keys \cap ShardAttrs = {}
    /\ (Built /\ obj.restored) => obj.bcasts = 0

\* The persisted state of a distributed model that still names the
\* partition table.
C11_Witness ==
    /\ Built
    /\ obj.snap.taken
    /\ obj.args.comm
    /\ obj.snap.mpi_comm = "None"
    /\ obj.snap.keys \cap ShardAttrs = {"Y_list"}

\* C12: input_sensitivity returns the kernel's relevance vector when the
\* kernel has ARD and the prior's pi otherwise, and changes nothing else.
C12_InputSensitivity ==
    [][ObjInputSensitivity =>
         /\ obj'.ret.val = IF obj.ARD THEN KernInputSensitivity(obj) ELSE obj.m.pi
         /\ obj' = [obj EXCEPT !.ret = obj'.ret]
         /\ UNCHANGED ProtocolVars]_vars

C12_Witness ==
    /\ Built
    /\ ~obj.ARD
    /\ obj.ret.call = "input_sensitivity"
    /\ obj.ret.val = obj.m.pi
    /\ obj.m.cycles > 0

\* C13: right after construction every binary_prob entry lies in
\* [1e-9, 1 - 1e-9] and the field is the clamped random perturbation of 0.5,
\* not one constant.
C13_ClampedRandomGamma ==
    Built =>
        /\ InUnitRange(obj.m.binary_prob)
        /\ ~obj.args.group_spike =>
              obj.m.binary_prob =
                  InitialGammaRandom(obj.args.N, obj.args.D, obj.args.seed)

\* A built model whose inclusion probabilities are all 0.5 although the
\* perturbation drew other values.
C13_Witness ==
    /\ Built
    /\ ~obj.args.group_spike
    /\ \A i \in 1 .. obj.args.N : \A j \in 1 .. obj.args.D :
          obj.m.binary_prob[i][j] = HALF
    /\ InitialGammaRandom(obj.args.N, obj.args.D, obj.args.seed) # obj.m.binary_prob

\* C14: for every N and D, construction with group_spike succeeds, every
\* row of binary_prob is constant, and the grouping flag is set on the
\* kernel and on the prior.
C14_GroupingMode ==
    (obj.st # "new" /\ obj.args.group_spike) =>
        /\ Built
        /\ RowsConstant(obj.m.binary_prob)
        /\ obj.kern_group
        /\ obj.prior_group

\* A grouped construction that raised at the assignment of line 54.
C14_Witness ==
    /\ obj.st = "ctor_raised"
    /\ obj.args.group_spike
    /\ obj.args.N = 2
    /\ obj.args.D = 1

\* The fields of the model a recomputation cycle may write: the evidence
\* scalar and the gradient slots (trace and cycles record the cycle itself).
SameButEvidenceAndGradients(m, n) ==
    n = [m EXCEPT !.lml = n.lml, !.grad = n.grad, !.trace = n.trace,
                  !.cycles = n.cycles]

\* C15: a cycle on the non-bypass path changes only the evidence scalar and
\* the three gradient slots, leaving mean, variance, binary_prob, pi and Z
\* as they were; set_X_gradients assigns all three slots from its argument.
C15_CycleFrame ==
    [][/\ (ObjParametersChanged /\ ~Bypass(obj.m.inference_method)) =>
             /\ SameButEvidenceAndGradients(obj.m, obj'.m)
             /\ obj'.m.mean = obj.m.mean
             /\ obj'.m.variance = obj.m.variance
             /\ obj'.m.binary_prob = obj.m.binary_prob
             /\ obj'.m.pi = obj.m.pi
             /\ obj'.m.Z = obj.m.Z
       /\ ObjSetXGradients =>
             \E g \in GradTriples :
                 /\ obj'.m.grad.mean = g[1]
                 /\ obj'.m.grad.variance = g[2]
                 /\ obj'.m.grad.binary_prob = g[3]
                 /\ obj'.m = [obj.m EXCEPT !.grad = obj'.m.grad]]_vars

C15_Witness ==
    /\ Built
    /\ obj.ret.call = "parameters_changed"
    /\ ~Bypass(obj.m.inference_method)
    /\ obj.m.trace = <<"base_evidence", "kl_subtract", "kern_gradient_write",
                       "kl_gradient_add">>
    /\ obj.m.lml # Uncomputed.lml
    /\ obj.m.mean = InitialParams[2]
    /\ obj.m.Z = InitialParams[1]

\* What a completed cycle of the coordinator's own path leaves for parameters p
OwnEvidence(p) == SparseGPEvidence(p) - KLDivergence(p)
OwnGradients(p) ==
    [s \in DOMAIN KernGradients(p) |-> KernGradients(p)[s] + KLGradients(p)[s]]
Steps(m) == {m.trace[i] : i \in DOMAIN m.trace}
KernelRaised == Built /\ obj.ret.call = "set_parameters" /\ obj.ret.raised

\* C16 as stated: when the kernel's gradient step raises, the KL gradient
\* accumulation does not run and the model is not left with an evidence
\* scalar KL-corrected for the new parameters next to gradient slots that
\* were not computed from them.
C16_CycleAllOrNothing ==
    KernelRaised =>
        /\ "kl_gradient_add" \notin Steps(obj.m)
        /\ ~(/\ obj.m.lml = OwnEvidence(obj.m.param_array)
             /\ obj.m.grad # OwnGradients(obj.m.param_array))

\* C16 amended: a completed own-path cycle leaves evidence and gradients of
\* the same parameters; when the kernel's gradient step raises the call
\* raises after one attempt, the KL gradient accumulation does not run and
\* nothing is rolled back: the model holds the new parameters, the evidence
\* KL-corrected for them and the gradient slots it held before the call.
C16_CycleFailureNoRollback ==
    [][ObjSetParams =>
         IF obj'.ret.raised
         THEN /\ obj'.m.trace = <<"base_evidence", "kl_subtract", "kern_gradient_raise">>
              /\ obj'.m.cycles = obj.m.cycles + 1
              /\ obj'.m.lml = OwnEvidence(obj'.m.param_array)
              /\ obj'.m.grad = obj.m.grad
         ELSE ~Bypass(obj.m.inference_method) =>
              /\ obj'.m.lml = OwnEvidence(obj'.m.param_array)
              /\ obj'.m.grad = OwnGradients(obj'.m.param_array)]_vars

\* A model left, by a cycle whose kernel step raised, with the evidence of
\* the new parameters and the gradients of the completed cycle before it.
C16_Witness ==
    /\ KernelRaised
    /\ obj.m.cycles = 2
    /\ obj.m.lml = OwnEvidence(obj.m.param_array)
    /\ obj.m.grad # OwnGradients(obj.m.param_array)
    /\ obj.m.grad # Uncomputed.grad

OwnSteps == {"base_evidence", "kl_subtract", "kern_gradient_write",
             "kl_gradient_add", "kern_gradient_raise"}

\* C19: a model built without an inference method has the minibatch method,
\* each of its cycles, distributed or not, is the bypass alone, and the
\* coordinator's own steps run only for a model whose caller supplied a
\* method that is neither the minibatch nor the GPU variant.
C19_DefaultDispatch ==
    Built =>
        /\ obj.args.inference = "None" =>
              /\ obj.m.inference_method = "VarDTC_minibatch"
              /\ obj.m.cycles > 0 => obj.m.trace = <<"update_gradients">>
        /\ Steps(obj.m) \cap OwnSteps # {} =>
              obj.args.inference \notin {"None", "VarDTC_minibatch", "VarDTC_GPU"}

C19_Witness ==
    /\ Built
    /\ obj.args.inference = "None"
    /\ obj.args.comm
    /\ obj.ret.call = "set_parameters"
    /\ obj.m.cycles = 2
    /\ obj.m.trace = <<"update_gradients">>
    /\ obj.m.lml = EngineEvidence(obj.m.param_array)

OptimizeNotEntered(r) == pc[r] \in {"ctor_bcast", "pre"}
OptimizeExecuting(r) == pc[r] \in {"optimizing", "wait_signal"}
OptimizeEnded(r) == pc[r] \in {"post", "raised", "opt_raised"}

\* C17: on every worker the in-optimization flag is False after
\* construction, True exactly while optimize executes, and False after
\* optimize has ended by any exit path, the optimizer raising included.
C17_FlagLifecycle ==
    \A r \in Procs :
        /\ OptimizeNotEntered(r) => ~model[r].IN_OPTIMIZATION
        /\ OptimizeExecuting(r) => model[r].IN_OPTIMIZATION
        /\ OptimizeEnded(r) => ~model[r].IN_OPTIMIZATION

\* Rank 0's optimize has ended by the optimizer raising, the flag is still
\* set, and the set_parameters that followed emitted a continue signal.
C17_Witness ==
    /\ mpi
    /\ pc[Root] = "opt_raised"
    /\ model[Root].IN_OPTIMIZATION
    /\ topCalls[Root] = script.pre + 1
    /\ Len(sent) >= 2
    /\ IsContinue(sent[Len(sent) - 1])
    /\ sent[Len(sent)].kind = "payload"

RootRaised == mpi /\ pc[Root] = "opt_raised"
StopAppended == Cardinality(StopIndexes') > Cardinality(StopIndexes)

\* C18: if rank 0's optimizer raises, rank 0 broadcasts no stop sentinel and
\* no follower ever leaves its wait loop: from then on every follower ends
\* up in the loop for good; a stop sentinel enters the stream only by the
\* normal return of rank 0's optimize.
C18_RootFailure ==
    /\ [](RootRaised =>
            /\ StopIndexes = {}
            /\ \A r \in Followers : pc[r] \notin {"post", "raised"})
    /\ RootRaised ~> [](\A r \in Followers : InWaitLoop(r))
    /\ [][StopAppended => pc[Root] = "optimizing" /\ pc'[Root] = "post"]_vars

C18_Witness ==
    /\ RootRaised
    /\ Len(applied[Root]) = 1
    /\ StopIndexes = {}
    /\ \A r \in Followers :
          /\ InWaitLoop(r)
          /\ pos[r] = Len(sent)
          /\ Len(applied[r]) = 1

====
